---- MODULE Spec2Model ----
(***************************************************************************)
(* Model of importers/utils/api_bindings.py: the asynchronous workflows    *)
(* post_then_approve and new_version_patch_then_approve running as tasks   *)
(* of one cooperative scheduler that share the binding's semaphore, and    *)
(* the paginated fetches get_all_from_api_paged and                        *)
(* get_all_activity_objects, the synchronous requests with their           *)
(* classification of a failed response, and the constructor's checks.      *)
(*                                                                         *)
(* A task runs without interruption from one suspension point to the next. *)
(* The suspension points are the awaits: waiting for the semaphore and     *)
(* waiting for the response of a request that was sent.  Receiving the     *)
(* status line and reading the body of one response are taken as one step: *)
(* between the two the task only assigns its local variable status.        *)
(* time.sleep is a blocking call: it holds the thread of the scheduler, so *)
(* while a task is in it no other task runs.                               *)
(***************************************************************************)
EXTENDS Integers, Sequences, FiniteSets, TLC

VARIABLES sem, waiters, tasks, pg, call

vars == <<sem, waiters, tasks, pg, call>>

asyncVars == <<sem, waiters, tasks>>

(***************************************************************************)
(* Bounds and program constants                                            *)
(***************************************************************************)
SemCeiling == 8

NumTasks == 1

MaxTotal == 4

MaxPageSize == 3

\* pages of get_all_activity_objects the largest total needs
ActivityPages == 3

\* known phrases one message of the service holds at most
MaxPhrases == 2

\* longest response list handed to get_all_identifiers
MaxItems == 3

GateTasks == SemCeiling + 1

(***************************************************************************)
(* Values: response bodies on the wire and Python values                   *)
(***************************************************************************)
Absent == "absent"

DraftPhrase == "New draft version can be created only for FINAL versions"

Value(ty, m, d, u, n) ==
    [ty |-> ty, message |-> m, detail |-> d, uid |-> u, name |-> n]

Dict(m, d, u, n) == Value("dict", m, d, u, n)

EmptyDict == Dict(Absent, Absent, Absent, Absent)

PyNone == Value("None", Absent, Absent, Absent, Absent)

NonJson == Value("nonjson", Absent, Absent, Absent, Absent)

Statuses == {201, 304, 400}

Bodies ==
    { NonJson,
      EmptyDict,
      Dict(Absent, Absent, "U1", Absent),
      Dict(Absent, Absent, Absent, "X"),
      Dict(DraftPhrase, Absent, Absent, Absent),
      Dict("other", Absent, Absent, Absent),
      Dict(Absent, DraftPhrase, Absent, Absent),
      Dict("other", DraftPhrase, Absent, Absent),
      Dict("other", Absent, "U1", Absent),
      Dict(Absent, Absent, "U2", Absent) }

GateStatuses == {201}

GateBodies == { Dict(Absent, Absent, "U1", Absent) }

\* bool(value): None and the empty dict are falsy
Truthy(v) ==
    /\ v.ty = "dict"
    /\ \/ v.message # Absent
       \/ v.detail # Absent
       \/ v.uid # Absent
       \/ v.name # Absent

\* str(dict): the text holds every value of the dict
Str(v) == {v.message, v.detail, v.uid, v.name} \ {Absent}

status_ok_Below400(status) == 200 <= status /\ status < 400

status_ok(status) == 200 <= status /\ status < 300

\* aiohttp ClientResponse.ok
response_ok(status) == status < 400

get_error_message(response) ==
    IF response.message # Absent THEN {response.message}
    ELSE IF response.detail # Absent THEN {response.detail}
    ELSE Str(response)

JsonOrEmpty_KeepsBody(b) == b

\* await response.json() guarded by except aiohttp.ContentTypeError: result = {}
JsonOrEmpty(b) == IF b.ty = "nonjson" THEN EmptyDict ELSE b

(***************************************************************************)
(* get_all_from_api_paged                                                  *)
(***************************************************************************)
\* a dict of query parameters is a function from its keys to numbers
\* (True is 1, False is 0); None and the empty dict are the empty function
NoParams == [k \in {} |-> 0]

\* dict.update
Update(a, b) ==
    [k \in DOMAIN a \cup DOMAIN b |-> IF k \in DOMAIN b THEN b[k] ELSE a[k]]

SetKey(a, key, v) == Update(a, [k \in {key} |-> v])

CallerKeySets == SUBSET {"page_size", "page_number", "filters"}

CallerParams ==
    UNION { [K -> 1..MaxPageSize] : K \in CallerKeySets }

Min(a, b) == IF a < b THEN a ELSE b

\* math.ceil(a / b) for b > 0
CeilDiv(a, b) == (a + b - 1) \div b

\* the items of one page as the service cuts them: full pages, the last one
\* holding the rest; page_size 0 asks for everything
ServerPage(total, page_number, page_size) ==
    LET lo == IF page_size = 0 THEN 0 ELSE (page_number - 1) * page_size
        hi == IF page_size = 0
              THEN (IF page_number = 1 THEN total ELSE 0)
              ELSE Min(page_number * page_size, total)
    IN  IF hi > lo THEN [i \in 1..(hi - lo) |-> lo + i] ELSE <<>>

NoFetch ==
    [ pc |-> "idle", params |-> NoParams, items_only |-> TRUE, page_size |-> 0,
      page_params |-> NoParams, page_number |-> 0, count |-> 0, nbr_pages |-> 0,
      all_items |-> <<>>, requests |-> <<>>, total |-> 0, exc |-> "none",
      failed |-> FALSE ]

\* no synchronous call has been made
NoCall == [fn |-> "none"]

(***************************************************************************)
(* Task state                                                              *)
(***************************************************************************)
Has(h, tok) == \E i \in 1..Len(h) : h[i] = tok

CountTok(h, tok) == Cardinality({i \in 1..Len(h) : h[i] = tok})

\* one request as it leaves the task: which call sent it and the path it
\* is sent to (the work item's data names its paths)

Request(kind, url) == [kind |-> kind, url |-> url]

\* path_join(self.api_base_url, url, uid, "approvals"), below the base URL
ApproveUrl(url, uid) == <<url, uid, "approvals">>

NewTask ==
    [ pc |-> "pending", workflow |-> "none", approve |-> FALSE,
      status |-> 0, response |-> PyNone, uid |-> Absent, result |-> PyNone,
      ret |-> PyNone, sent |-> <<>>, hist |-> <<>> ]

InFlight(t) == tasks[t].pc \in {"postSent", "nvSent", "patchSent", "approveSent"}

Started(t) == tasks[t].pc # "pending"

\* work items are taken up in the order of their index
MayStart(t) ==
    /\ tasks[t].pc = "pending"
    /\ \A u \in DOMAIN tasks : u < t => Started(u)

\* the state of the binding after __init__, with a batch of n work items
\* not yet taken up and no paginated fetch called
Constructed(n) ==
    /\ sem = SemCeiling
    /\ waiters = <<>>
    /\ tasks = [t \in 1..n |-> NewTask]
    /\ pg = NoFetch
    /\ call = NoCall

Init == Constructed(NumTasks)

InitGate == Constructed(GateTasks)

InitPaged == Constructed(0)

InitSync == Constructed(0)

(***************************************************************************)
(* The semaphore self.sem (asyncio.Semaphore): acquire takes a slot when   *)
(* one is free and nobody waits, otherwise the task queues; release hands  *)
(* the slot to the longest waiting task or returns it to the counter.      *)
(***************************************************************************)
SemFree_NeverBlocks == TRUE

SemFree == sem > 0 /\ waiters = <<>>

SemAfterRelease_Kept == sem

SemAfterRelease_AlwaysIncrements == sem + 1

\* Semaphore.release: the slot goes to the first waiter when there is one
SemAfterRelease == IF waiters = <<>> THEN sem + 1 ELSE sem

WaitersAfterRelease == IF waiters = <<>> THEN waiters ELSE Tail(waiters)

Woken == IF waiters = <<>> THEN {} ELSE {Head(waiters)}

(***************************************************************************)
(* post_to_api_async: session.post inside "async with self.sem"            *)
(***************************************************************************)
SendPost(tk) ==
    [tk EXCEPT !.pc = "postSent",
               !.sent = Append(@, Request("post", <<"path">>)),
               !.hist = Append(@, "send:post")]

DecodeLog(b, tok) == IF b.ty = "nonjson" THEN <<tok>> ELSE <<>>

(***************************************************************************)
(* approve_item_async: the part after the response arrived                 *)
(***************************************************************************)
ApproveRaises(status, b) == response_ok(status) /\ b.ty = "nonjson"

ApproveResult(status, b) == IF response_ok(status) THEN b ELSE EmptyDict

ApproveHist(status) ==
    IF response_ok(status)
    THEN <<"recv:approve", "metric:Approve">>
    ELSE <<"recv:approve", "log:warning:approve_failed", "metric:ApproveError">>

SendApprove(tk, uid) ==
    [tk EXCEPT !.pc = "approveSent",
               !.sent = Append(@, Request("approve", ApproveUrl("approve_path", uid))),
               !.hist = Append(@, "send:approve")]

Return(tk, value) ==
    [tk EXCEPT !.pc = "returned", !.ret = value, !.hist = Append(@, "return")]

Raise(tk) ==
    [tk EXCEPT !.pc = "raised", !.hist = @ \o <<"recv:approve", "raise:ContentTypeError">>]

AddHist(tk, toks) == [tk EXCEPT !.hist = @ \o toks]

SleepBeforeApprove_Skipped(tk) == [tk EXCEPT !.pc = "sleeping"]

\* time.sleep(SLEEP_BEFORE_APPROVE): the task enters the blocking delay
SleepBeforeApprove(tk) == [AddHist(tk, <<"sleep">>) EXCEPT !.pc = "sleeping"]

\* the thread of the scheduler is free: no task is inside time.sleep
LoopFree == \A u \in DOMAIN tasks : tasks[u].pc # "sleeping"

(***************************************************************************)
(* post_then_approve                                                       *)
(***************************************************************************)
PostFailed_Above400(status) == status > 400

PostFailed(status) == status >= 400

WantsApproval_UidIgnored(approve, uid) == approve

WantsApproval(approve, uid) == approve /\ uid # Absent

\* the approval decision leaves approve out and nothing is returned
post_then_approve_after_post_ApprovesAnyway(tk0, status, b) ==
    LET response == JsonOrEmpty(b)
        tk == [AddHist(tk0, <<"recv:post">> \o DecodeLog(b, "log:error:decode"))
                 EXCEPT !.status = status, !.response = response]
        uid == response.uid
    IN  IF PostFailed(status)
        THEN Return(AddHist(tk, <<"log:error:post_failed">>), PyNone)
        ELSE IF uid # Absent
        THEN SleepBeforeApprove([tk EXCEPT !.uid = uid])
        ELSE IF tk.approve
        THEN Return(AddHist(tk, <<"log:error:no_uid">>), response)
        ELSE Return(tk, PyNone)

\* lines 838-869, from the return of post_to_api_async on
post_then_approve_after_post(tk0, status, b) ==
    LET response == JsonOrEmpty(b)
        tk == [AddHist(tk0, <<"recv:post">> \o DecodeLog(b, "log:error:decode"))
                 EXCEPT !.status = status, !.response = response]
        uid == response.uid
    IN  IF PostFailed(status)
        THEN Return(AddHist(tk, <<"log:error:post_failed">>), PyNone)
        ELSE IF WantsApproval(tk.approve, uid)
        THEN SleepBeforeApprove([tk EXCEPT !.uid = uid])
        ELSE IF tk.approve
        THEN Return(AddHist(tk, <<"log:error:no_uid">>), response)
        ELSE Return(tk, response)

\* lines 862-865, from the return of time.sleep to the approval request
post_then_approve_after_sleep(tk) ==
    SendApprove(AddHist(tk, <<"log:info:approve">>), tk.uid)

\* a second approval after a failed one
post_then_approve_after_approve_Retry(tk0, status, b) ==
    IF ~response_ok(status) /\ CountTok(tk0.hist, "send:approve") < 2
    THEN SendApprove(AddHist(tk0, ApproveHist(status)), tk0.response.uid)
    ELSE IF ApproveRaises(status, b)
    THEN Raise(tk0)
    ELSE Return([AddHist(tk0, ApproveHist(status))
                   EXCEPT !.status = status, !.result = ApproveResult(status, b)],
                ApproveResult(status, b))

\* lines 863-866, from the return of approve_item_async on
post_then_approve_after_approve(tk0, status, b) ==
    IF ApproveRaises(status, b)
    THEN Raise(tk0)
    ELSE LET result == ApproveResult(status, b)
             tk == [AddHist(tk0, ApproveHist(status))
                      EXCEPT !.status = status, !.result = result]
         IN  Return(tk, result)

(***************************************************************************)
(* new_version_patch_then_approve                                          *)
(***************************************************************************)
AlreadyDraft_MessageOnly(response) == response.message = DraftPhrase

AlreadyDraft(response) == DraftPhrase \in get_error_message(response)

SendPatch(tk) ==
    [tk EXCEPT !.pc = "patchSent",
               !.sent = Append(@, Request("patch", <<"patch_path">>)),
               !.hist = Append(@, "send:patch")]

\* lines 874-888, from the return of new_version_to_api_async on
new_version_after_new_version(tk0, status, b) ==
    LET response == JsonOrEmpty(b)
        tk == [AddHist(tk0, <<"recv:new_version">> \o DecodeLog(b, "log:error:decode"))
                 EXCEPT !.status = status, !.response = response]
    IN  IF ~status_ok(status)
        THEN IF AlreadyDraft(response)
             THEN SendPatch(AddHist(tk, <<"log:warning:already_draft">>))
             ELSE Return(AddHist(tk, <<"log:error:new_version_failed">>), PyNone)
        ELSE SendPatch(tk)

\* the uid is taken from the answer to the version request
new_version_after_patch_UidOfVersion(tk0, status, b) ==
    LET response == JsonOrEmpty(b)
        tk == [AddHist(tk0, <<"recv:patch">> \o DecodeLog(b, "log:error:decode"))
                 EXCEPT !.status = status, !.response = response]
        uid == tk0.response.uid
    IN  IF ~status_ok(status)
        THEN Return(AddHist(tk, <<"log:error:patch_failed">>), PyNone)
        ELSE IF WantsApproval(tk.approve, uid)
        THEN SleepBeforeApprove([tk EXCEPT !.uid = uid])
        ELSE IF tk.approve
        THEN Return(AddHist(tk, <<"log:error:no_uid">>), PyNone)
        ELSE Return(tk, PyNone)

\* lines 886-903, from the return of patch_to_api_async on
new_version_after_patch(tk0, status, b) ==
    LET response == JsonOrEmpty(b)
        tk == [AddHist(tk0, <<"recv:patch">> \o DecodeLog(b, "log:error:decode"))
                 EXCEPT !.status = status, !.response = response]
        uid == response.uid
    IN  IF ~status_ok(status)
        THEN Return(AddHist(tk, <<"log:error:patch_failed">>), PyNone)
        ELSE IF WantsApproval(tk.approve, uid)
        THEN SleepBeforeApprove([tk EXCEPT !.uid = uid])
        ELSE IF tk.approve
        THEN Return(AddHist(tk, <<"log:error:no_uid">>), PyNone)
        ELSE Return(tk, PyNone)

\* lines 896-898, from the return of time.sleep to the approval request
new_version_after_sleep(tk) == SendApprove(tk, tk.uid)

\* lines 896-901, from the return of approve_item_async on
new_version_after_approve(tk0, status, b) ==
    IF ApproveRaises(status, b)
    THEN Raise(tk0)
    ELSE LET tk == [AddHist(tk0, ApproveHist(status))
                      EXCEPT !.status = status, !.result = ApproveResult(status, b)]
         IN  IF ~status_ok(status)
             THEN Return(AddHist(tk, <<"log:error:approve_failed">>), tk.response)
             ELSE Return(tk, tk.response)

(***************************************************************************)
(* Actions: one per run of a task between two suspension points            *)
(***************************************************************************)
StartPostThenApprove(t, approve) ==
    /\ LoopFree
    /\ MayStart(t)
    /\ LET tk == [tasks[t] EXCEPT !.workflow = "post_then_approve",
                                  !.approve = approve,
                                  !.hist = <<"log:debug:post">>]
       IN  IF SemFree
           THEN /\ sem' = sem - 1
                /\ waiters' = waiters
                /\ tasks' = [tasks EXCEPT ![t] = SendPost(tk)]
           ELSE /\ sem' = sem
                /\ waiters' = Append(waiters, t)
                /\ tasks' = [tasks EXCEPT ![t] = [tk EXCEPT !.pc = "semWait"]]
    /\ UNCHANGED <<pg, call>>

SemAcquired(t) ==
    /\ LoopFree
    /\ tasks[t].pc = "semGranted"
    /\ tasks' = [tasks EXCEPT ![t] = SendPost(@)]
    /\ UNCHANGED <<sem, waiters, pg, call>>

PostResponse(t, status, b) ==
    /\ LoopFree
    /\ tasks[t].pc = "postSent"
    /\ sem' = SemAfterRelease
    /\ waiters' = WaitersAfterRelease
    /\ tasks' = [u \in DOMAIN tasks |->
                   IF u = t THEN post_then_approve_after_post(tasks[t], status, b)
                   ELSE IF u \in Woken THEN [tasks[u] EXCEPT !.pc = "semGranted"]
                   ELSE tasks[u]]
    /\ UNCHANGED <<pg, call>>

\* lines 764-767: session.post raises (the connection fails); "async with
\* self.sem" releases the slot and the exception leaves post_then_approve
PostRaises(t) ==
    /\ LoopFree
    /\ tasks[t].pc = "postSent"
    /\ sem' = SemAfterRelease
    /\ waiters' = WaitersAfterRelease
    /\ tasks' = [u \in DOMAIN tasks |->
                   IF u = t
                   THEN [tasks[t] EXCEPT !.pc = "raised",
                                         !.hist = Append(@, "raise:ClientError")]
                   ELSE IF u \in Woken THEN [tasks[u] EXCEPT !.pc = "semGranted"]
                   ELSE tasks[u]]
    /\ UNCHANGED <<pg, call>>

StartNewVersion(t, approve) ==
    /\ LoopFree
    /\ MayStart(t)
    /\ tasks' = [tasks EXCEPT ![t] =
                   [@ EXCEPT !.workflow = "new_version_patch_then_approve",
                             !.approve = approve,
                             !.pc = "nvSent",
                             !.sent = <<Request("new_version", <<"new_path">>)>>,
                             !.hist = <<"send:new_version">>]]
    /\ UNCHANGED <<sem, waiters, pg, call>>

NewVersionResponse(t, status, b) ==
    /\ LoopFree
    /\ tasks[t].pc = "nvSent"
    /\ tasks' = [tasks EXCEPT ![t] = new_version_after_new_version(@, status, b)]
    /\ UNCHANGED <<sem, waiters, pg, call>>

PatchResponse(t, status, b) ==
    /\ LoopFree
    /\ tasks[t].pc = "patchSent"
    /\ tasks' = [tasks EXCEPT ![t] = new_version_after_patch(@, status, b)]
    /\ UNCHANGED <<sem, waiters, pg, call>>

ApproveResponse(t, status, b) ==
    /\ LoopFree
    /\ tasks[t].pc = "approveSent"
    /\ tasks' = [tasks EXCEPT ![t] =
                   IF @.workflow = "post_then_approve"
                   THEN post_then_approve_after_approve(@, status, b)
                   ELSE new_version_after_approve(@, status, b)]
    /\ UNCHANGED <<sem, waiters, pg, call>>

SleepDone(t) ==
    /\ tasks[t].pc = "sleeping"
    /\ tasks' = [tasks EXCEPT ![t] =
                   IF @.workflow = "post_then_approve"
                   THEN post_then_approve_after_sleep(@)
                   ELSE new_version_after_sleep(@)]
    /\ UNCHANGED <<sem, waiters, pg, call>>

Next ==
    \/ \E t \in DOMAIN tasks, a \in BOOLEAN : StartPostThenApprove(t, a)
    \/ \E t \in DOMAIN tasks, s \in Statuses, b \in Bodies : PostResponse(t, s, b)
    \/ \E t \in DOMAIN tasks : PostRaises(t)
    \/ \E t \in DOMAIN tasks, a \in BOOLEAN : StartNewVersion(t, a)
    \/ \E t \in DOMAIN tasks, s \in Statuses, b \in Bodies : NewVersionResponse(t, s, b)
    \/ \E t \in DOMAIN tasks, s \in Statuses, b \in Bodies : PatchResponse(t, s, b)
    \/ \E t \in DOMAIN tasks : SleepDone(t)
    \/ \E t \in DOMAIN tasks, s \in Statuses, b \in Bodies : ApproveResponse(t, s, b)

Spec == Init /\ [][Next]_vars

\* the event loop runs a task that is ready, and every request sent is
\* answered: a step that can be taken is taken in the end
SpecFair == Spec /\ WF_vars(Next)

NextGate ==
    \/ \E t \in DOMAIN tasks : StartPostThenApprove(t, TRUE)
    \/ \E t \in DOMAIN tasks : SemAcquired(t)
    \/ \E t \in DOMAIN tasks, s \in GateStatuses, b \in GateBodies : PostResponse(t, s, b)
    \/ \E t \in DOMAIN tasks : SleepDone(t)
    \/ \E t \in DOMAIN tasks, s \in GateStatuses, b \in GateBodies : ApproveResponse(t, s, b)

SpecGate == InitGate /\ [][NextGate]_vars

\* lines 365-372
FirstPageParams(params, page_size) ==
    Update([k \in {"page_number", "page_size", "total_count"} |->
              CASE k = "page_number" -> 1
                [] k = "page_size" -> page_size
                [] OTHER -> 1],
           params)

\* line 381
MorePages(page_size, page_number, count) == page_size * page_number < count

\* lines 381-391: the loop test, then either the next request or the return
PagedLoop(f) ==
    IF MorePages(f.page_size, f.page_number, f.count)
    THEN LET pp == SetKey(f.page_params, "page_number", f.page_number + 1)
         IN  [f EXCEPT !.pc = "page",
                       !.page_number = @ + 1,
                       !.page_params = pp,
                       !.requests = Append(@, pp)]
    ELSE [f EXCEPT !.pc = "returned"]

PagedRaise(f, exc) == [f EXCEPT !.pc = "raised", !.exc = exc]

\* lines 365-374, up to the first request
PagedCall(params, items_only, page_size, total) ==
    /\ pg.pc = "idle"
    /\ LET pp == FirstPageParams(params, page_size)
       IN  pg' = [pg EXCEPT !.pc = "first",
                            !.params = params,
                            !.items_only = items_only,
                            !.page_size = page_size,
                            !.page_number = 1,
                            !.page_params = pp,
                            !.requests = <<pp>>,
                            !.total = total]
    /\ UNCHANGED <<asyncVars, call>>

\* lines 374-381: get_all_from_api gives None for a failed request
PagedFirstResponse(ok) ==
    /\ pg.pc = "first"
    /\ pg' = IF ~ok
             THEN PagedRaise([pg EXCEPT !.failed = TRUE], "TypeError")
             ELSE LET items == ServerPage(pg.total, pg.page_params["page_number"],
                                          pg.page_params["page_size"])
                      f == [pg EXCEPT !.all_items = items,
                                      !.count = IF pg.page_params["total_count"] = 1
                                                THEN pg.total ELSE 0]
                  IN  IF f.page_size = 0
                      THEN PagedRaise(f, "ZeroDivisionError")
                      ELSE PagedLoop([f EXCEPT !.nbr_pages = CeilDiv(f.count, f.page_size),
                                               !.page_params = SetKey(@, "total_count", 0)])
    /\ UNCHANGED <<asyncVars, call>>

\* lines 385-388
PagedNextResponse(ok) ==
    /\ pg.pc = "page"
    /\ pg' = IF ~ok
             THEN PagedRaise([pg EXCEPT !.failed = TRUE], "TypeError")
             ELSE LET items == ServerPage(pg.total, pg.page_params["page_number"],
                                          pg.page_params["page_size"])
                  IN  PagedLoop([pg EXCEPT !.all_items = @ \o items])
    /\ UNCHANGED <<asyncVars, call>>

(***************************************************************************)
(* get_all_activity_objects: the same loop with its own page size, built   *)
(* on get_all_from_api, which gives None for a failed request              *)
(***************************************************************************)
\* line 541
ActivityPageSize == 100

\* the totals the service may hold: none, one, and around each page border
ActivityTotals ==
    {0, 1} \cup { k * ActivityPageSize + d : k \in 1..(ActivityPages - 1), d \in {0, 1} }

\* lines 543-549 and 565-571; filters is 0 for None
ActivityParams(page_number, total_count, filters) ==
    LET base == [k \in {"page_number", "page_size", "total_count"} |->
                   CASE k = "page_number" -> page_number
                     [] k = "page_size" -> ActivityPageSize
                     [] OTHER -> total_count]
    IN  IF filters # 0 THEN SetKey(base, "filters", filters) ELSE base

\* lines 562-581: the loop test, then either the next request or the return
ActivityLoop(f) ==
    IF MorePages(f.page_size, f.page_number, f.count)
    THEN LET pp == ActivityParams(f.page_number + 1, 0,
                                  IF "filters" \in DOMAIN f.params
                                  THEN f.params["filters"] ELSE 0)
         IN  [f EXCEPT !.pc = "activity_page",
                       !.page_number = @ + 1,
                       !.page_params = pp,
                       !.requests = Append(@, pp)]
    ELSE [f EXCEPT !.pc = "activity_returned"]

\* lines 539-555, up to the first request
ActivityCall(filters, total) ==
    /\ pg.pc = "idle"
    /\ LET pp == ActivityParams(1, 1, filters)
       IN  pg' = [pg EXCEPT !.pc = "activity_first",
                            !.params = pp,
                            !.items_only = FALSE,
                            !.page_size = ActivityPageSize,
                            !.page_number = 1,
                            !.page_params = pp,
                            !.requests = <<pp>>,
                            !.total = total]
    /\ UNCHANGED <<asyncVars, call>>

\* lines 553-562: a failed first request leaves an empty list and count 0
ActivityFirstResponse(ok) ==
    /\ pg.pc = "activity_first"
    /\ pg' = IF ~ok
             THEN ActivityLoop([pg EXCEPT !.failed = TRUE,
                                          !.all_items = <<>>,
                                          !.count = 0])
             ELSE ActivityLoop([pg EXCEPT
                     !.all_items = ServerPage(pg.total, 1, ActivityPageSize),
                     !.count = pg.total])
    /\ UNCHANGED <<asyncVars, call>>

\* lines 576-580: "if items:" passes over a failed request
ActivityNextResponse(ok) ==
    /\ pg.pc = "activity_page"
    /\ pg' = IF ~ok
             THEN ActivityLoop([pg EXCEPT !.failed = TRUE])
             ELSE ActivityLoop([pg EXCEPT !.all_items =
                     @ \o ServerPage(pg.total, pg.page_number, ActivityPageSize)])
    /\ UNCHANGED <<asyncVars, call>>

(***************************************************************************)
(* The synchronous requests: simple_delete, simple_post_to_api,            *)
(* post_to_api, patch_to_api, simple_patch.  The text of a message is the  *)
(* set of the known phrases it holds.                                      *)
(***************************************************************************)
Phrases ==
    { "already exist", "already exists", "all ready", "Duplicate template",
      "There is already", "already has", "not found", "does not exist",
      "no approved objective", "other" }

Texts == { T \in SUBSET Phrases : Cardinality(T) <= MaxPhrases }

\* pattern in text: a text that says "already exists" also says "already exist"
In(pattern, text) ==
    \E a \in text :
        a = pattern \/ (pattern = "already exist" /\ a = "already exists")

\* a body: the keys of the JSON object and the text of its message
SyncBody(ty, keys, m) == [ty |-> ty, keys |-> keys, message |-> m]

SyncBodies ==
    { SyncBody("nonjson", {}, {}) }
        \cup { SyncBody("dict", {"message"} \cup k, m) :
                   k \in SUBSET {"detail"}, m \in Texts }
        \cup { SyncBody("dict", k, {}) : k \in SUBSET {"detail"} }

\* "message" in response.json() and pattern in response.json()["message"]
MessageHas(b, pattern) == "message" \in b.keys /\ In(pattern, b.message)

\* lines 200-217: the metrics key of a failed simple_post_to_api
simple_post_to_api_key(b) ==
    IF \/ MessageHas(b, "already exist")
       \/ MessageHas(b, "all ready")
       \/ MessageHas(b, "Duplicate template")
       \/ MessageHas(b, "There is already")
    THEN "--AlreadyExists"
    ELSE IF MessageHas(b, "no approved objective")
    THEN "--NoObjective"
    ELSE "--ERROR"

\* lines 245-261: the metrics key of a failed post_to_api
post_to_api_key(b) ==
    IF \/ MessageHas(b, "already exists")
       \/ MessageHas(b, "Duplicate template")
       \/ MessageHas(b, "already has")
    THEN "--AlreadyExists"
    ELSE IF MessageHas(b, "not found") \/ MessageHas(b, "does not exist")
    THEN "--NotFound"
    ELSE "--ERROR"

\* lines 273-281: the metrics key of a failed patch_to_api
patch_to_api_key(b) ==
    IF MessageHas(b, "already exists") THEN "--AlreadyExists" ELSE "--Patch-ERROR"

\* lines 703-717: the metrics key of a failed simple_patch
simple_patch_key(b) ==
    IF MessageHas(b, "already exists")
    THEN "--AlreadyExists"
    ELSE IF MessageHas(b, "does not exist")
    THEN "--NotFound"
    ELSE "--Patch-ERROR"

Classifying == {"simple_post_to_api", "post_to_api", "patch_to_api", "simple_patch"}

SyncOps == Classifying \cup {"simple_delete"}

FailureKey(fn, b) ==
    CASE fn = "simple_post_to_api" -> simple_post_to_api_key(b)
      [] fn = "post_to_api" -> post_to_api_key(b)
      [] fn = "patch_to_api" -> patch_to_api_key(b)
      [] fn = "simple_patch" -> simple_patch_key(b)
      [] OTHER -> "--ERROR"

SuccessKey(fn) ==
    CASE fn \in {"simple_post_to_api", "post_to_api"} -> "--POST"
      [] fn \in {"patch_to_api", "simple_patch"} -> "--Patch"
      [] OTHER -> "--DELETE"

SyncDone(fn, ok, b, metrics, ret, exc) ==
    [fn |-> fn, ok |-> ok, body |-> b, metrics |-> metrics, ret |-> ret, exc |-> exc]

\* one synchronous request from the call to its return; response.json()
\* raises on a body that is no JSON, simple_delete never reads the body
SyncRequest(fn, ok, b) ==
    /\ call = NoCall
    /\ call' =
         IF fn = "simple_delete"
         THEN SyncDone(fn, ok, b,
                       <<IF ok THEN SuccessKey(fn) ELSE FailureKey(fn, b)>>,
                       IF ok THEN "True" ELSE "False", "none")
         ELSE IF ok
         THEN IF b.ty = "nonjson"
              THEN SyncDone(fn, ok, b, <<SuccessKey(fn)>>, "none", "JSONDecodeError")
              ELSE SyncDone(fn, ok, b, <<SuccessKey(fn)>>, "json", "none")
         ELSE IF b.ty = "nonjson"
              THEN SyncDone(fn, ok, b, <<>>, "none", "JSONDecodeError")
              ELSE SyncDone(fn, ok, b, <<FailureKey(fn, b)>>, "None", "none")
    /\ UNCHANGED <<asyncVars, pg>>

(***************************************************************************)
(* get_all_identifiers: an item is reduced to the two fields the call      *)
(* names, item[identifier] and item[value]                                 *)
(***************************************************************************)
Items == [identifier : {"a", "b"}, value : {1, 2}]

ResponseLists == UNION { [1..n -> Items] : n \in 0..MaxItems }

\* line 397, the loop of lines 396-397
RECURSIVE ListLoop(_, _)
ListLoop(identifiers, rest) ==
    IF rest = <<>> THEN identifiers
    ELSE ListLoop(Append(identifiers, Head(rest).identifier), Tail(rest))

SetItem_KeepFirst(identifiers, item) ==
    IF item.identifier \in DOMAIN identifiers THEN identifiers
    ELSE SetKey(identifiers, item.identifier, item.value)

\* line 404: identifiers[response_item[identifier]] = response_item[value]
SetItem(identifiers, item) == SetKey(identifiers, item.identifier, item.value)

\* the loop of lines 403-404
RECURSIVE DictLoop(_, _)
DictLoop(identifiers, rest) ==
    IF rest = <<>> THEN identifiers
    ELSE DictLoop(SetItem(identifiers, Head(rest)), Tail(rest))

IdentifiersDone(responses, with_value, ret_list, ret_dict, exc) ==
    [ fn |-> "get_all_identifiers", responses |-> responses, is_none |-> FALSE,
      with_value |-> with_value, ret_list |-> ret_list, ret_dict |-> ret_dict,
      exc |-> exc ]

\* lines 393-405 for a list of responses
GetAllIdentifiers(responses, with_value) ==
    /\ call = NoCall
    /\ call' = IF with_value
               THEN IdentifiersDone(responses, TRUE, <<>>, DictLoop(NoParams, responses), "none")
               ELSE IdentifiersDone(responses, FALSE, ListLoop(<<>>, responses), NoParams, "none")
    /\ UNCHANGED <<asyncVars, pg>>

\* lines 393-402 for responses None: the loop over None raises, the check
\* for None comes only on the way to the dict
GetAllIdentifiersOfNone(with_value) ==
    /\ call = NoCall
    /\ call' = [IdentifiersDone(<<>>, with_value, <<>>, NoParams,
                                IF with_value THEN "none" ELSE "TypeError")
                  EXCEPT !.is_none = TRUE]
    /\ UNCHANGED <<asyncVars, pg>>

(***************************************************************************)
(* approve_item_names_and_attributes: two blocking requests, each answered *)
(* ok (status below 400) or not                                            *)
(***************************************************************************)
\* lines 293-295, up to the first request
ApproveNamesAndAttributes ==
    /\ call = NoCall
    /\ call' = [ fn |-> "approve_item_names_and_attributes", pc |-> "names",
                 sent |-> <<"names/approvals">>, answers |-> <<>>,
                 log |-> <<>>, ret |-> "none" ]
    /\ UNCHANGED <<asyncVars, pg>>

approve_names_after_names_IgnoresFailure(c, ok) ==
    [c EXCEPT !.pc = "attributes", !.sent = Append(@, "attributes/approvals")]

\* lines 296-300, from the answer to the names approval on
approve_names_after_names(c, ok) ==
    IF ~ok
    THEN [c EXCEPT !.pc = "returned", !.ret = "False",
                   !.log = Append(@, "warning:names")]
    ELSE [c EXCEPT !.pc = "attributes", !.sent = Append(@, "attributes/approvals")]

\* lines 301-307, from the answer to the attributes approval on
approve_names_after_attributes(c, ok) ==
    IF ~ok
    THEN [c EXCEPT !.pc = "returned", !.ret = "False",
                   !.log = Append(@, "warning:attributes")]
    ELSE [c EXCEPT !.pc = "returned", !.ret = "True"]

NamesResponse(ok) ==
    /\ call.fn = "approve_item_names_and_attributes"
    /\ call.pc = "names"
    /\ call' = approve_names_after_names([call EXCEPT !.answers = Append(@, ok)], ok)
    /\ UNCHANGED <<asyncVars, pg>>

AttributesResponse(ok) ==
    /\ call.fn = "approve_item_names_and_attributes"
    /\ call.pc = "attributes"
    /\ call' = approve_names_after_attributes([call EXCEPT !.answers = Append(@, ok)], ok)
    /\ UNCHANGED <<asyncVars, pg>>

(***************************************************************************)
(* get_all_from_api called with the caller's params                        *)
(***************************************************************************)
\* lines 316-320: the defaults are written into the dict the caller passed
WithPagingDefaults(params) ==
    LET a == IF "page_size" \in DOMAIN params THEN params
             ELSE SetKey(params, "page_size", 0)
    IN  IF "page_number" \in DOMAIN a THEN a ELSE SetKey(a, "page_number", 1)

\* lines 309-360 in one step; given is FALSE for params=None, where the dict
\* of lines 312-315 is a new one
GetAllFromApi(given, params, ok) ==
    /\ call = NoCall
    /\ given \/ params = NoParams
    /\ call' = [ fn |-> "get_all_from_api", given |-> given,
                 params_before |-> params,
                 params_after |-> IF given THEN WithPagingDefaults(params) ELSE params,
                 request_params |-> WithPagingDefaults(params),
                 ok |-> ok,
                 ret |-> IF ok THEN "items" ELSE "None" ]
    /\ UNCHANGED <<asyncVars, pg>>

NextSync ==
    \/ ApproveNamesAndAttributes
    \/ \E given \in BOOLEAN, params \in CallerParams, ok \in BOOLEAN :
          GetAllFromApi(given, params, ok)
    \/ \E ok \in BOOLEAN : NamesResponse(ok)
    \/ \E ok \in BOOLEAN : AttributesResponse(ok)
    \/ \E fn \in SyncOps, ok \in BOOLEAN, b \in SyncBodies : SyncRequest(fn, ok, b)
    \/ \E responses \in ResponseLists, with_value \in BOOLEAN :
          GetAllIdentifiers(responses, with_value)
    \/ \E with_value \in BOOLEAN : GetAllIdentifiersOfNone(with_value)

SpecSync == InitSync /\ [][NextSync]_vars

(***************************************************************************)
(* __init__: verify_connection, then check_for_ct_packages unless the      *)
(* inspected file name holds "db-schema-migration"                         *)
(***************************************************************************)
\* line 153
mandatory_packages == {"ADAM CT", "CDASH CT", "DEFINE-XML CT", "SDTM CT"}

\* lines 154-161
optional_packages ==
    {"COA CT", "GLOSSARY CT", "PROTOCOL CT", "QRS CT", "QS-FT CT", "SEND CT"}

\* where a source file lies: below a directory named db-schema-migration or not
Locations == {"db-schema-migration", "elsewhere"}

\* requests.get then raise_for_status: answered below 400, answered with an
\* error status, or no answer at all
DiscoveryOutcomes == {"ok", "error_status", "connection_failure"}

\* line 121: inspect.currentframe() is the frame of __init__ itself, so
\* f_code.co_filename is the file of the binding module
InspectedFile(c) == c.module_file

\* "db-schema-migration" not in inspect.currentframe().f_code.co_filename
RunsPackageCheck(c) == InspectedFile(c) # "db-schema-migration"

StartupLog(c, toks) == [c EXCEPT !.log = @ \o toks]

\* sys.exit(1)
SysExit(c) == [c EXCEPT !.pc = "exited", !.exit_code = 1]

\* lines 106-118 and 133-137: the constructor up to the discovery request;
\* installed is the set of packages the service holds
Construct(module_file, caller_file, installed) ==
    /\ call = NoCall
    /\ call' = [ fn |-> "__init__", pc |-> "verify",
                 module_file |-> module_file, caller_file |-> caller_file,
                 discovery |-> "none", package_check |-> FALSE,
                 listed |-> FALSE, installed |-> installed, log |-> <<>>,
                 exit_code |-> 0, exc |-> "none" ]
    /\ UNCHANGED <<asyncVars, pg>>

\* lines 137-143, then lines 121-122 and 147 up to the package request
VerifyResponse(outcome) ==
    /\ call.fn = "__init__"
    /\ call.pc = "verify"
    /\ LET c == [call EXCEPT !.discovery = outcome]
       IN  call' =
             IF outcome # "ok"
             THEN SysExit(StartupLog(c, <<"critical:connect">>))
             ELSE IF RunsPackageCheck(c)
             THEN [c EXCEPT !.pc = "packages", !.package_check = TRUE]
             ELSE [c EXCEPT !.pc = "constructed"]
    /\ UNCHANGED <<asyncVars, pg>>

check_for_ct_packages_NeverExits(c, package_names) ==
    IF mandatory_packages \ package_names # {}
    THEN [StartupLog(c, <<"critical:missing">>) EXCEPT !.pc = "constructed"]
    ELSE [c EXCEPT !.pc = "constructed"]

\* lines 152-168, from the set of catalogue names on
check_for_ct_packages(c, package_names) ==
    IF mandatory_packages \ package_names # {}
    THEN SysExit(StartupLog(c, <<"critical:missing">>))
    ELSE IF optional_packages \ package_names # {}
    THEN [StartupLog(c, <<"warning:missing_optional">>) EXCEPT !.pc = "constructed"]
    ELSE [c EXCEPT !.pc = "constructed"]

\* lines 147-151: get_all_from_api gives None for a failed request and the
\* loop over None raises TypeError
PackagesResponse(ok) ==
    /\ call.fn = "__init__"
    /\ call.pc = "packages"
    /\ call' =
         IF ~ok
         THEN [call EXCEPT !.pc = "raised", !.exc = "TypeError"]
         ELSE check_for_ct_packages([call EXCEPT !.listed = TRUE], call.installed)
    /\ UNCHANGED <<asyncVars, pg>>

NextStartup ==
    \/ \E m \in Locations, c \in Locations,
          installed \in SUBSET (mandatory_packages \cup optional_packages) :
            Construct(m, c, installed)
    \/ \E outcome \in DiscoveryOutcomes : VerifyResponse(outcome)
    \/ \E ok \in BOOLEAN : PackagesResponse(ok)

\* the state at the call of the constructor
InitStartup ==
    /\ sem = SemCeiling
    /\ waiters = <<>>
    /\ tasks = <<>>
    /\ pg = NoFetch
    /\ call = NoCall

SpecStartup == InitStartup /\ [][NextStartup]_vars

NextPaged ==
    \/ \E params \in CallerParams, items_only \in BOOLEAN,
          page_size \in 0..MaxPageSize, total \in 0..MaxTotal :
            PagedCall(params, items_only, page_size, total)
    \/ \E ok \in BOOLEAN : PagedFirstResponse(ok)
    \/ \E ok \in BOOLEAN : PagedNextResponse(ok)
    \/ \E filters \in {0, 1}, total \in ActivityTotals : ActivityCall(filters, total)
    \/ \E ok \in BOOLEAN : ActivityFirstResponse(ok)
    \/ \E ok \in BOOLEAN : ActivityNextResponse(ok)

SpecPaged == InitPaged /\ [][NextPaged]_vars

(***************************************************************************)
(* Properties                                                              *)
(***************************************************************************)
\* the place of the first tok in h, 0 when there is none
First(h, tok) ==
    IF Has(h, tok)
    THEN CHOOSE i \in 1..Len(h) : h[i] = tok /\ \A j \in 1..(i - 1) : h[j] # tok
    ELSE 0

Requests(tk, kind) == SelectSeq(tk.sent, LAMBDA r : r.kind = kind)

IsPost(tk) == tk.workflow = "post_then_approve"

IsNewVersion(tk) == tk.workflow = "new_version_patch_then_approve"

\* the locals status and response still hold the answer to the POST
HoldsPostAnswer(tk) ==
    IsPost(tk) /\ Has(tk.hist, "recv:post") /\ ~Has(tk.hist, "recv:approve")

Non2xx(status) == status < 200 \/ status >= 300

\* C1 as claimed: at most 8 asynchronous requests of any kind (post,
\* new-version, patch, approval) are sent and not yet completed.
C1_AllRequestsBounded ==
    Cardinality({t \in DOMAIN tasks : InFlight(t)}) <= 8

\* C1 amended: at most 8 requests sent by post_to_api_async are sent and not
\* yet completed; the other requests are outside the gate.
C1_PostsBounded ==
    Cardinality({t \in DOMAIN tasks : tasks[t].pc = "postSent"}) <= 8

C1_Witness ==
    /\ Cardinality({t \in DOMAIN tasks : tasks[t].pc = "postSent"}) = 8
    /\ \E t \in DOMAIN tasks : tasks[t].pc = "semWait"

\* C2: post_then_approve with approve=True whose POST is answered with a
\* status below 400 and a body with a uid issues exactly one approval, to
\* {approve_path}/{uid}/approvals, after the POST response and the delay.
C2_OneApprovalAfterPostAndDelay ==
    \A t \in DOMAIN tasks :
        LET tk == tasks[t]
            approvals == Requests(tk, "approve")
        IN  /\ ( /\ HoldsPostAnswer(tk)
                 /\ tk.approve
                 /\ tk.status < 400
                 /\ tk.response.uid # Absent )
               => /\ tk.pc \in {"sleeping", "approveSent"}
                  /\ tk.pc = "sleeping" => tk.hist[Len(tk.hist)] = "sleep"
                  /\ tk.pc = "approveSent" => Len(approvals) = 1
            /\ (IsPost(tk) /\ Len(approvals) > 0)
               => /\ Len(approvals) = 1
                  /\ tk.response.uid # Absent
                  /\ approvals[1].url = <<"approve_path", tk.response.uid, "approvals">>
                  /\ CountTok(tk.hist, "send:approve") = 1
                  /\ 0 < First(tk.hist, "recv:post")
                  /\ First(tk.hist, "recv:post") < First(tk.hist, "sleep")
                  /\ First(tk.hist, "sleep") < First(tk.hist, "send:approve")

C2_Witness ==
    \E t \in DOMAIN tasks :
        /\ IsPost(tasks[t])
        /\ tasks[t].pc = "returned"
        /\ Len(Requests(tasks[t], "approve")) = 1
        /\ Has(tasks[t].hist, "recv:approve")

\* C3: post_then_approve with approve=True whose POST succeeds without a uid
\* issues no approval, logs the skipped approval once at error level, and ends.
C3_NoUidNoApproval ==
    \A t \in DOMAIN tasks :
        LET tk == tasks[t]
        IN  ( /\ IsPost(tk)
              /\ tk.approve
              /\ Has(tk.hist, "recv:post")
              /\ tk.status < 400
              /\ tk.response.uid = Absent )
            => /\ tk.pc = "returned"
               /\ Len(Requests(tk, "approve")) = 0
               /\ Len(tk.sent) = 1
               /\ CountTok(tk.hist, "log:error:no_uid") = 1

C3_Witness ==
    \E t \in DOMAIN tasks :
        /\ IsPost(tasks[t])
        /\ tasks[t].approve
        /\ tasks[t].pc = "returned"
        /\ tasks[t].status = 201
        /\ tasks[t].response = Dict(Absent, Absent, Absent, "X")

\* C4: post_then_approve whose POST is answered with a status of 400 or more
\* issues no further request, logs an error and returns None, with or
\* without approve and with or without a uid in the failed body.
C4_PostFailedStops ==
    \A t \in DOMAIN tasks :
        LET tk == tasks[t]
        IN  (HoldsPostAnswer(tk) /\ tk.status >= 400)
            => /\ tk.pc = "returned"
               /\ tk.ret = PyNone
               /\ tk.sent = <<Request("post", <<"path">>)>>
               /\ Has(tk.hist, "log:error:post_failed")

C4_Witness ==
    \E t \in DOMAIN tasks :
        /\ HoldsPostAnswer(tasks[t])
        /\ tasks[t].approve
        /\ tasks[t].status >= 400
        /\ tasks[t].response.uid # Absent
        /\ tasks[t].pc = "returned"

\* the error message of a failed body names the draft state: its message
\* does, or it has no message and its detail does
SaysAlreadyDraft(body) ==
    \/ body.message = DraftPhrase
    \/ body.message = Absent /\ body.detail = DraftPhrase

\* the locals status and response still hold the answer to the new-version
\* request
HoldsNewVersionAnswer(tk) ==
    IsNewVersion(tk) /\ Has(tk.hist, "recv:new_version") /\ ~Has(tk.hist, "recv:patch")

\* the locals status and response hold the answer to the patch; response
\* keeps it to the end, status until the approval is answered
HoldsPatchAnswer(tk) ==
    IsNewVersion(tk) /\ Has(tk.hist, "recv:patch") /\ ~Has(tk.hist, "recv:approve")

\* C5: when the version-creation request fails with an error message that
\* contains "New draft version can be created only for FINAL versions", a
\* warning is logged and the patch request is issued afterwards.
C5_AlreadyDraftStillPatches ==
    \A t \in DOMAIN tasks :
        LET tk == tasks[t]
        IN  ( /\ HoldsNewVersionAnswer(tk)
              /\ Non2xx(tk.status)
              /\ SaysAlreadyDraft(tk.response) )
            => /\ tk.pc = "patchSent"
               /\ tk.sent = <<Request("new_version", <<"new_path">>),
                              Request("patch", <<"patch_path">>)>>
               /\ CountTok(tk.hist, "log:warning:already_draft") = 1
               /\ First(tk.hist, "recv:new_version") < First(tk.hist, "send:patch")

C5_Witness ==
    \E t \in DOMAIN tasks :
        /\ HoldsNewVersionAnswer(tasks[t])
        /\ tasks[t].status = 400
        /\ tasks[t].response = Dict(Absent, DraftPhrase, Absent, Absent)
        /\ tasks[t].pc = "patchSent"

\* C6: any other version-creation failure (a non-JSON body included) issues
\* no patch and no approval, any non-2xx patch response issues no approval,
\* and in both cases the workflow ends there and returns None.
C6_OtherFailuresAbort ==
    \A t \in DOMAIN tasks :
        LET tk == tasks[t]
        IN  /\ ( /\ HoldsNewVersionAnswer(tk)
                 /\ Non2xx(tk.status)
                 /\ ~SaysAlreadyDraft(tk.response) )
               => /\ tk.pc = "returned"
                  /\ tk.ret = PyNone
                  /\ tk.sent = <<Request("new_version", <<"new_path">>)>>
            /\ (HoldsPatchAnswer(tk) /\ Non2xx(tk.status))
               => /\ tk.pc = "returned"
                  /\ tk.ret = PyNone
                  /\ Len(Requests(tk, "approve")) = 0
                  /\ Len(Requests(tk, "patch")) = 1

C6_Witness ==
    \E t \in DOMAIN tasks :
        /\ HoldsNewVersionAnswer(tasks[t])
        /\ tasks[t].status = 400
        /\ Has(tasks[t].hist, "log:error:decode")
        /\ tasks[t].response = EmptyDict
        /\ tasks[t].pc = "returned"

\* C7: no retry: a work item sends at most one request of each kind, at
\* most one of POST and new-version, and so is approved at most once.
C7_NoRetry ==
    \A t \in DOMAIN tasks :
        LET tk == tasks[t]
        IN  /\ Len(Requests(tk, "post")) + Len(Requests(tk, "new_version")) <= 1
            /\ Len(Requests(tk, "patch")) <= 1
            /\ Len(Requests(tk, "approve")) <= 1
            /\ Len(tk.sent) <= 3

C7_Witness ==
    \E t \in DOMAIN tasks :
        /\ tasks[t].pc = "returned"
        /\ Has(tasks[t].hist, "metric:ApproveError")
        /\ Len(Requests(tasks[t], "approve")) = 1

\* a workflow that stopped on a failure: post failed, patch or version
\* creation failed, approval answered non-2xx, or approval skipped for a
\* missing uid
StoppedOnFailure(tk) ==
    /\ tk.pc = "returned"
    /\ \/ Has(tk.hist, "log:error:post_failed")
       \/ Has(tk.hist, "log:error:new_version_failed")
       \/ Has(tk.hist, "log:error:patch_failed")
       \/ Has(tk.hist, "log:error:no_uid")
       \/ Has(tk.hist, "recv:approve") /\ Non2xx(tk.status)

\* C8 as claimed: every workflow that stops on a failure returns None or a
\* falsy value, in both workflows.
C8_FailureReturnsFalsy ==
    \A t \in DOMAIN tasks : StoppedOnFailure(tasks[t]) => ~Truthy(tasks[t].ret)

\* C9 as claimed: whatever the status and the body shape at each step, the
\* workflows end by returning a value and never raise to the caller.
C9_NeverRaises ==
    \A t \in DOMAIN tasks : tasks[t].pc # "raised"

StrictlyIncreasing(q) == \A i \in 1..(Len(q) - 1) : q[i] < q[i + 1]

PageNumbersRequested == [i \in 1..Len(pg.requests) |-> pg.requests[i]["page_number"]]

\* C10 as claimed: for any caller-supplied params and any page_size >= 1,
\* when every page request succeeds the fetch returns as many items as the
\* declared total, and the page numbers requested are strictly increasing.
C10_PagedFetchComplete ==
    (pg.pc = "returned" /\ pg.page_size >= 1)
    => /\ Len(pg.all_items) = pg.total
       /\ StrictlyIncreasing(PageNumbersRequested)

\* C11: when a page request of a paginated fetch fails, first page or later,
\* the fetch fails: neither get_all_from_api_paged nor
\* get_all_activity_objects returns a sequence of items after a failed page.
C11_FailedPageFailsFetch ==
    pg.pc \in {"returned", "activity_returned"} => ~pg.failed

(***************************************************************************)
(* The classification of a failed response                                 *)
(***************************************************************************)
Category(key) ==
    CASE key = "--AlreadyExists" -> "AlreadyExists"
      [] key = "--NotFound" -> "NotFound"
      [] key = "--NoObjective" -> "NoObjective"
      [] OTHER -> "Generic"

SaysExists(m) == In("already exist", m) \/ In("Duplicate template", m)

SaysNotFound(m) == In("not found", m) \/ In("does not exist", m)

SaysNoObjective(m) == In("no approved objective", m)

\* C12: every classifying operation (simple_post_to_api, post_to_api,
\* patch_to_api, simple_patch) maps a failed response's body the same way: an
\* already-exists pattern in the message gives AlreadyExists, also next to a
\* not-found pattern; otherwise a not-found pattern gives NotFound and "no
\* approved objective" gives NoObjective; a body with no message gives Generic.
C12_OneClassifierEverywhere ==
    (call.fn \in Classifying /\ ~call.ok /\ call.body.ty = "dict")
    => /\ Len(call.metrics) = 1
       /\ LET m == call.body.message
              cat == Category(call.metrics[1])
          IN  /\ SaysExists(m) => cat = "AlreadyExists"
              /\ (~SaysExists(m) /\ SaysNotFound(m) /\ ~SaysNoObjective(m))
                 => cat = "NotFound"
              /\ (~SaysExists(m) /\ ~SaysNotFound(m) /\ SaysNoObjective(m))
                 => cat = "NoObjective"
              /\ call.body.keys = {"detail"} => cat = "Generic"

(***************************************************************************)
(* Metrics of the asynchronous workflows                                   *)
(***************************************************************************)
MetricsIncrements(h) ==
    Cardinality({ i \in 1..Len(h) : h[i] \in {"metric:Approve", "metric:ApproveError"} })

\* C13: a workflow that stopped on a failure (post failed, version or patch
\* failed, approval failed, approval skipped for a missing uid) has incremented
\* exactly one metrics key by the time it returns.
C13_FailureCountedOnce ==
    \A t \in DOMAIN tasks :
        StoppedOnFailure(tasks[t]) => MetricsIncrements(tasks[t].hist) = 1

(***************************************************************************)
(* The delay before the approval                                           *)
(***************************************************************************)
\* the step task t is waiting to take, when it has one
CanStep(t) ==
    \/ ENABLED SemAcquired(t)
    \/ \E s \in GateStatuses, b \in GateBodies :
          ENABLED PostResponse(t, s, b) \/ ENABLED ApproveResponse(t, s, b)

\* C14: the delay before the approval is a suspension point: while one task
\* is inside it, another task whose response has arrived, or which has been
\* handed its slot, can take its step.
C14_DelayYields ==
    \A a, b \in DOMAIN tasks :
        ( /\ a # b
          /\ tasks[a].pc = "sleeping"
          /\ tasks[b].pc \in {"semGranted", "postSent", "approveSent"} )
        => CanStep(b)

(***************************************************************************)
(* Construction                                                            *)
(***************************************************************************)
StartupEnded == call.fn = "__init__" /\ call.pc \in {"exited", "constructed", "raised"}

Exited1(c) == c.pc = "exited" /\ c.exit_code = 1

DiscoveryFailedExits ==
    (call.fn = "__init__" /\ call.discovery \notin {"none", "ok"})
    => /\ Exited1(call)
       /\ ~call.package_check
       /\ call.log = <<"critical:connect">>

C16_SkipFollowsCaller ==
    (StartupEnded /\ call.discovery = "ok")
    => (call.package_check <=> call.caller_file # "db-schema-migration")

(***************************************************************************)
(* get_all_identifiers                                                     *)
(***************************************************************************)
Reorderings(q) ==
    { [i \in 1..Len(q) |-> q[p[i]]] :
        p \in { f \in [1..Len(q) -> 1..Len(q)] :
                  \A i, j \in 1..Len(q) : i # j => f[i] # f[j] } }

MappingReturned ==
    call.fn = "get_all_identifiers" /\ call.with_value /\ ~call.is_none

\* items that share an identifier share the value
NoClash(q) ==
    \A i, j \in 1..Len(q) : q[i].identifier = q[j].identifier => q[i].value = q[j].value

\* C17 as claimed: with a value field given the mapping returned does not
\* depend on the order of the input list, also when two items share an
\* identifier.
C17_OrderIndependent ==
    MappingReturned
    => \A q \in Reorderings(call.responses) : DictLoop(NoParams, q) = call.ret_dict

\* C17 amended: the mapping has exactly the identifiers of the list as keys
\* and gives each the value of its last occurrence; it is the same for every
\* order of a list in which items that share an identifier share the value.
C17_LastOccurrenceWins ==
    MappingReturned
    => LET q == call.responses
       IN  /\ DOMAIN call.ret_dict = { q[i].identifier : i \in 1..Len(q) }
           /\ \A i \in 1..Len(q) :
                 (\A j \in (i + 1)..Len(q) : q[j].identifier # q[i].identifier)
                 => call.ret_dict[q[i].identifier] = q[i].value
           /\ NoClash(q)
              => \A r \in Reorderings(q) : DictLoop(NoParams, r) = call.ret_dict

C17_Witness ==
    /\ MappingReturned
    /\ Len(call.responses) = 3
    /\ ~NoClash(call.responses)
    /\ \E r \in Reorderings(call.responses) : DictLoop(NoParams, r) # call.ret_dict

(***************************************************************************)
(* The gate of post_to_api_async                                           *)
(***************************************************************************)
\* tasks inside "async with self.sem": slot taken or handed over, response
\* of the POST not yet read
Admitted == { t \in DOMAIN tasks : tasks[t].pc \in {"semGranted", "postSent"} }

\* C18: at most 8 tasks are inside the gate, they hold exactly the slots
\* that are taken, and a task waits only while all 8 slots are taken and has
\* sent no POST before a slot is handed to it.
C18_GateAdmitsAtMostEight ==
    /\ Cardinality(Admitted) = SemCeiling - sem
    /\ Cardinality(Admitted) <= 8
    /\ \A t \in DOMAIN tasks :
          /\ tasks[t].pc = "semWait"
             => /\ Cardinality(Admitted) = 8
                /\ \E i \in 1..Len(waiters) : waiters[i] = t
          /\ tasks[t].pc \in {"semWait", "semGranted"}
             => /\ tasks[t].sent = <<>>
                /\ ~Has(tasks[t].hist, "send:post")

C18_Witness ==
    /\ tasks[GateTasks].pc = "semGranted"
    /\ Cardinality(Admitted) = 8
    /\ Cardinality({ t \in DOMAIN tasks : tasks[t].pc = "postSent" }) = 7

(***************************************************************************)
(* Termination                                                             *)
(***************************************************************************)
\* C19: with every request answered and a fair scheduler, every
\* post_then_approve work item ends in one of its terminal states (returned
\* after the POST, approved, post failed, approval skipped, approval failed).
C19_EveryItemReturns ==
    <>(\A t \in DOMAIN tasks :
         /\ Started(t)
         /\ IsPost(tasks[t]) => tasks[t].pc = "returned")

(***************************************************************************)
(* The approval of new_version_patch_then_approve                          *)
(***************************************************************************)
PatchWantsApproval(tk) ==
    tk.approve /\ status_ok(tk.status) /\ tk.response.uid # Absent

\* C20: new_version_patch_then_approve issues an approval exactly when
\* approve was asked for, the patch was answered 2xx and its answer holds a
\* uid; the approval follows the answer to the patch and the delay, and is
\* addressed with the uid of the answer to the patch.
C20_ApprovalFollowsPatchUid ==
    \A t \in DOMAIN tasks :
        LET tk == tasks[t]
            approvals == Requests(tk, "approve")
        IN  /\ (HoldsPatchAnswer(tk) /\ PatchWantsApproval(tk))
               => /\ tk.pc \in {"sleeping", "approveSent"}
                  /\ tk.pc = "sleeping" => tk.hist[Len(tk.hist)] = "sleep"
                  /\ tk.pc = "approveSent" => Len(approvals) = 1
            /\ (HoldsPatchAnswer(tk) /\ ~PatchWantsApproval(tk))
               => (tk.pc = "returned" /\ approvals = <<>>)
            /\ (IsNewVersion(tk) /\ ~Has(tk.hist, "recv:patch")) => approvals = <<>>
            /\ (IsNewVersion(tk) /\ approvals # <<>>)
               => /\ Len(approvals) = 1
                  /\ tk.approve
                  /\ ~Has(tk.hist, "log:error:patch_failed")
                  /\ tk.response.uid # Absent
                  /\ approvals[1].url = <<"approve_path", tk.response.uid, "approvals">>
                  /\ 0 < First(tk.hist, "recv:patch")
                  /\ First(tk.hist, "recv:patch") < First(tk.hist, "sleep")
                  /\ First(tk.hist, "sleep") < First(tk.hist, "send:approve")

C20_Witness ==
    \E t \in DOMAIN tasks :
        /\ IsNewVersion(tasks[t])
        /\ tasks[t].pc = "approveSent"
        /\ Has(tasks[t].hist, "log:warning:already_draft")
        /\ Requests(tasks[t], "approve") =
             <<Request("approve", <<"approve_path", "U2", "approvals">>)>>

(***************************************************************************)
(* post_then_approve without approval                                      *)
(***************************************************************************)
\* C21: post_then_approve with approve=False never issues an approval,
\* whatever the answer to the POST holds, and when the POST is answered with
\* a status below 400 it ends there and returns the body of that answer.
C21_NoApproveReturnsPostBody ==
    \A t \in DOMAIN tasks :
        LET tk == tasks[t]
        IN  (IsPost(tk) /\ ~tk.approve)
            => /\ Requests(tk, "approve") = <<>>
               /\ tk.pc \notin {"sleeping", "approveSent"}
               /\ (Has(tk.hist, "recv:post") /\ tk.status < 400)
                  => /\ tk.pc = "returned"
                     /\ tk.ret = tk.response
                     /\ tk.ret \in (Bodies \ {NonJson}) \cup {EmptyDict}
                     /\ tk.sent = <<Request("post", <<"path">>)>>

C21_Witness ==
    \E t \in DOMAIN tasks :
        /\ IsPost(tasks[t])
        /\ ~tasks[t].approve
        /\ tasks[t].pc = "returned"
        /\ tasks[t].status = 304
        /\ tasks[t].ret = Dict("other", Absent, "U1", Absent)

(***************************************************************************)
(* The loop of get_all_from_api_paged                                      *)
(***************************************************************************)
PagedEnded == pg.pc \in {"returned", "raised"}

Max(a, b) == IF a > b THEN a ELSE b

\* the page numbers the loop itself has counted: one per request, and a
\* further page only while page_size * page_number < count
LoopCountsByOne ==
    pg.pc \in {"first", "page", "returned", "raised"}
    => /\ Len(pg.requests) = pg.page_number
       /\ pg.page_number > 1 => pg.page_size * (pg.page_number - 1) < pg.count

\* C22: get_all_from_api_paged whose requests all succeed returns for every
\* page size, 0 included, and every total; it asks for a further page only
\* while page_size * page_number < total, one page number at a time, and for
\* page_size >= 1 it sends max(1, ceil(total / page_size)) requests.
C22_PagedFetchTerminates ==
    /\ LoopCountsByOne
    /\ (PagedEnded /\ ~pg.failed)
       => /\ pg.pc = "returned"
          /\ pg.page_size >= 1
             => Len(pg.requests) = Max(1, CeilDiv(pg.total, pg.page_size))

\* the requests of a get_all_from_api_paged call, in the order sent
PagedRequests ==
    IF pg.pc \in {"first", "page", "returned", "raised"} THEN pg.requests ELSE <<>>

\* C23: for any caller-supplied params the first request of
\* get_all_from_api_paged carries the total-count flag set, the page_size
\* argument and page number 1; every later request carries the flag unset;
\* and every request carries the page size the loop condition uses.
C23_RequestsCarryLoopPaging ==
    \A i \in 1..Len(PagedRequests) :
        LET r == PagedRequests[i]
        IN  /\ r["page_size"] = pg.page_size
            /\ i = 1 => (r["total_count"] = 1 /\ r["page_number"] = 1)
            /\ i > 1 => r["total_count"] = 0

(***************************************************************************)
(* Metrics of the synchronous requests                                     *)
(***************************************************************************)
FailureKeys == {"--AlreadyExists", "--NotFound", "--NoObjective", "--ERROR", "--Patch-ERROR"}

SuccessKeys == {"--POST", "--Patch", "--DELETE"}

\* C24: every synchronous request (simple_post_to_api, post_to_api,
\* patch_to_api, simple_patch, simple_delete) increments exactly one metrics
\* key: a success key when it succeeded, the key of the one category chosen
\* when it failed; never two keys and never none.
C24_OneMetricsKeyPerRequest ==
    call.fn \in SyncOps
    => /\ Len(call.metrics) = 1
       /\ call.ok => call.metrics[1] \in SuccessKeys
       /\ ~call.ok => call.metrics[1] \in FailureKeys

(***************************************************************************)
(* Bodies that are not JSON                                                *)
(***************************************************************************)
\* the answer received as tok had a body that is not JSON: the decode error
\* is logged right after it
NotJsonAt(tk, tok) ==
    LET i == First(tk.hist, tok)
    IN  0 < i /\ i < Len(tk.hist) /\ tk.hist[i + 1] = "log:error:decode"

\* C25: a body that is not JSON on an asynchronous POST, version or patch
\* request gives the status received and an empty body and no exception:
\* post_then_approve then ends without approval, as a skipped approval for a
\* status below 400 with approve=True and as a failed POST for 400 and more.
C25_NonJsonIsNotFatal ==
    \A t \in DOMAIN tasks :
        LET tk == tasks[t]
        IN  /\ (IsPost(tk) /\ NotJsonAt(tk, "recv:post"))
               => /\ tk.pc = "returned"
                  /\ tk.response = EmptyDict
                  /\ tk.status \in Statuses
                  /\ tk.sent = <<Request("post", <<"path">>)>>
                  /\ tk.status >= 400
                     => (tk.ret = PyNone /\ Has(tk.hist, "log:error:post_failed"))
                  /\ tk.status < 400
                     => /\ tk.ret = EmptyDict
                        /\ tk.approve <=> Has(tk.hist, "log:error:no_uid")
            /\ (HoldsNewVersionAnswer(tk) /\ NotJsonAt(tk, "recv:new_version"))
               => /\ tk.response = EmptyDict
                  /\ tk.pc = (IF status_ok(tk.status) THEN "patchSent" ELSE "returned")
            /\ (IsNewVersion(tk) /\ NotJsonAt(tk, "recv:patch"))
               => /\ tk.response = EmptyDict
                  /\ tk.pc = "returned"
                  /\ Requests(tk, "approve") = <<>>

C25_Witness ==
    \E t \in DOMAIN tasks :
        /\ IsPost(tasks[t])
        /\ tasks[t].approve
        /\ NotJsonAt(tasks[t], "recv:post")
        /\ tasks[t].status = 201
        /\ tasks[t].pc = "returned"
        /\ Has(tasks[t].hist, "log:error:no_uid")

(***************************************************************************)
(* The slot of the gate                                                    *)
(***************************************************************************)
InPost == { t \in DOMAIN tasks : tasks[t].pc \in {"semGranted", "postSent"} }

AfterPost == { t \in DOMAIN tasks : tasks[t].pc \in {"sleeping", "approveSent", "returned", "raised"} }

\* C26: a slot of the gate is taken exactly by the tasks between admission
\* and the end of their POST, however the POST ends (success, error status,
\* body that is not JSON, exception); a task in its delay or waiting for its
\* approval holds none, and when every task has ended all 8 slots are free.
C26_SlotReleasedOnEveryExit ==
    /\ sem = SemCeiling - Cardinality(InPost)
    /\ InPost = {} => (sem = SemCeiling /\ waiters = <<>>)
    /\ \A t \in AfterPost :
          \A i \in 1..Len(waiters) : waiters[i] # t

C26_Witness ==
    /\ \E t \in DOMAIN tasks : Has(tasks[t].hist, "raise:ClientError")
    /\ \A t \in DOMAIN tasks : tasks[t].pc \in {"returned", "raised"}
    /\ sem = SemCeiling

(***************************************************************************)
(* approve_item_names_and_attributes                                       *)
(***************************************************************************)
\* C27: approve_item_names_and_attributes asks for the names approval first
\* and for the attributes approval only after the names approval succeeded;
\* it sends at most two requests and returns True exactly when both
\* approvals succeeded.
C27_NamesThenAttributes ==
    call.fn = "approve_item_names_and_attributes"
    => /\ call.sent \in {<<"names/approvals">>,
                         <<"names/approvals", "attributes/approvals">>}
       /\ Len(call.sent) = 2 => (Len(call.answers) >= 1 /\ call.answers[1])
       /\ call.pc = "returned"
          => /\ call.ret \in {"True", "False"}
             /\ Len(call.answers) = Len(call.sent)
             /\ call.ret = "True" <=> call.answers = <<TRUE, TRUE>>
             /\ ~call.answers[1] => call.sent = <<"names/approvals">>
       /\ call.pc # "returned" => call.ret = "none"

C27_Witness ==
    /\ call.fn = "approve_item_names_and_attributes"
    /\ call.pc = "returned"
    /\ call.answers = <<TRUE, FALSE>>
    /\ call.ret = "False"

(***************************************************************************)
(* The caller's query parameters                                           *)
(***************************************************************************)
\* C28: a listing request leaves the query-parameter map the caller passed
\* with the keys and values it had before the call.
C28_CallerParamsUnchanged ==
    (call.fn = "get_all_from_api" /\ call.given)
    => call.params_after = call.params_before

====
